---------------------------- MODULE Spec2Model ----------------------------
(***************************************************************************)
(* A model of the build engine of sublime-advanced-builder                 *)
(* (src/advanced_builder.py): the process handle (AsyncBuildProcess), the  *)
(* output sink (OutputWindowController) and the phase scheduler            *)
(* (AdvancedBuilderCommand).                                               *)
(*                                                                         *)
(* Text is a sequence of characters; a character is one of the strings of  *)
(* Chars.  "CR" and "LF" are the carriage return and the line feed.  A     *)
(* regular expression is modelled by the character a line must start with  *)
(* for re.match to succeed ("" is None: the pattern is not configured).    *)
(***************************************************************************)
EXTENDS Integers, Sequences, FiniteSets, TLC

\* ------------------------------------------------------------------ bounds
\* Number of builds (run_command calls) in one behaviour.
MaxBuilds == 2
\* Number of chunks the readers of all processes read in one behaviour.
MaxChunks == 1
\* Number of processes spawned in one behaviour.
MaxProcs == 2
\* Length of the text cut into chunks in the line buffer specification.
MaxLen == 3
\* Largest skip_lines of a task in the classifier specification.
MaxSkip == 1
\* Number of calls made on the sink in the classifier specification.
MaxOps == 2
\* Number of chunks the two readers read in the process handle specification.
MaxReads == 1
\* Number of kill() calls in the process handle specification.
MaxKills == 2

\* ------------------------------------------------------------------- text
Chars == {"p", "e", "CR", "LF"}

\* str.replace('\r\n', '\n').replace('\r', '\n')
RECURSIVE Normalize(_)
Normalize(s) ==
    IF s = <<>> THEN <<>>
    ELSE IF s[1] = "CR" /\ Len(s) > 1 /\ s[2] = "LF"
         THEN <<"LF">> \o Normalize(SubSeq(s, 3, Len(s)))
    ELSE IF s[1] = "CR" THEN <<"LF">> \o Normalize(Tail(s))
    ELSE <<s[1]>> \o Normalize(Tail(s))

\* str.split("\n"): the pieces between the line feeds, always at least one.
RECURSIVE Split(_)
Split(s) ==
    IF \A i \in 1..Len(s) : s[i] /= "LF" THEN <<s>>
    ELSE LET n == CHOOSE i \in 1..Len(s) :
                      s[i] = "LF" /\ \A j \in 1..(i-1) : s[j] /= "LF"
         IN  <<SubSeq(s, 1, n-1)>> \o Split(SubSeq(s, n+1, Len(s)))

\* The sequence without its last element: del(str_lines[-1]).
Front(q) == SubSeq(q, 1, Len(q) - 1)

\* The lines of a list, each followed by a line feed, as one text.
RECURSIVE Join(_)
Join(lines) ==
    IF lines = <<>> THEN <<>> ELSE lines[1] \o <<"LF">> \o Join(Tail(lines))

\* The chunks of a list as one text.
RECURSIVE Concat(_)
Concat(chunks) ==
    IF chunks = <<>> THEN <<>> ELSE chunks[1] \o Concat(Tail(chunks))

\* append_data, lines 426-446, for a chunk of a process: the chunk is
\* normalized, the held fragment is put in front of it, the text is split,
\* and an unterminated last piece becomes the new fragment.
SplitChunk(buffer, data) ==
    LET str_data  == buffer \o Normalize(data)
        str_lines == Split(str_data)
        last      == str_lines[Len(str_lines)]
    IN  [lines  |-> Front(str_lines),
         buffer |-> IF last /= <<>> THEN last ELSE <<>>]

\* ------------------------------------------------------------ configuration
\* The keyword arguments of one task (the dictionary a phase's get_task()
\* returns), as AsyncBuildProcess.__init__ and OutputWindowController.run
\* read them.  cmd is "ok", "missing" when the executable cannot be started
\* (subprocess.Popen raises OSError), or "empty" for a task with neither cmd
\* nor shell_cmd.  kill is the keyword argument of OutputWindowController.run
\* (line 273); path is the search-path fragment ("" when none is given).
\* captures tells which of the named groups file, line, column and message
\* (message_pre, message, message_post) the patterns of the task hold and
\* fill when they match: match.groupdict() has None for the others.
Capture(f, l, c, m) == [file |-> f, line |-> l, column |-> c, message |-> m]

Task(cmd, cb) ==
    [cmd |-> cmd, skip_lines |-> 0, error_regex |-> "", file_regex |-> "e",
     warning_regex |-> "", message_regex |-> "", hide_regex |-> "",
     line_regex |-> "", warnings_as_errors |-> FALSE,
     allow_hide_errors |-> FALSE, completion_callback |-> cb,
     kill |-> FALSE, path |-> "", captures |-> Capture(TRUE, TRUE, TRUE, TRUE)]

\* A phase object as the scheduler uses it: is_valid(), should_run(),
\* stop_on_error and get_task() (<<>> is None, <<t>> is the task t).
\* name is the position of the phase in the configured list.
Phase(name, valid, run, stop, task) ==
    [name |-> name, valid |-> valid, should_run |-> run,
     stop_on_error |-> stop, task |-> task]

\* run(), lines 277-280: a task without error_regex takes its file_regex.
error_regex(task) ==
    IF task.error_regex = "" /\ task.file_regex /= ""
    THEN task.file_regex ELSE task.error_regex

\* ------------------------------------------------------------- output sink
\* One line of the output view: its kind k (the prefix of a rendered line
\* or the text of a line the engine writes itself) and a number n (for a
\* phase header the position of the phase in the configured list, for a
\* rendered ERROR or WARNING line 1 when it carries "file (line, column):").
Line(k, n) == [k |-> k, n |-> n]

\* OutputWindowController.init, lines 261-267: the sink after construction.
\* The attribute temp_str is assigned nowhere in init.
NewSink_temp_str(quiet) ==
    [proc |-> 0, has_errors |-> FALSE, running |-> FALSE, log |-> <<>>,
     has_temp_str |-> TRUE, temp_str |-> <<>>, quiet |-> quiet]

NewSink(quiet) ==
    [proc |-> 0, has_errors |-> FALSE, running |-> FALSE, log |-> <<>>,
     has_temp_str |-> FALSE, temp_str |-> <<>>, quiet |-> quiet]

\* write(): append_data(None, ...) of one line; a line without a process is
\* written to the view as it is (lines 450-452).
write(snk, k, n) == [snk EXCEPT !.log = Append(@, Line(k, n))]

\* match_line with a pattern that is one literal character.
match_line(line, expr) == expr /= "" /\ line /= <<>> /\ line[1] = expr

\* _build_message(proc, importance, **kwargs), lines 350-383: the parts of
\* the rendered line.  The position "(line, column):" is written only
\* inside the branch of a captured file (lines 358-374), with the column 0
\* when none is captured; a part of the message is written with a blank
\* before it (lines 376-378).
build_message(importance, c) ==
    [importance |-> importance,
     file       |-> c.file,
     position   |-> c.file /\ c.line,
     column     |-> IF c.file /\ c.line
                    THEN (IF c.column THEN "captured" ELSE "0") ELSE "",
     message    |-> c.message]

\* result_file_regex, line 243: "[SEVERITY]: file (line, column): " and
\* the rest of the line, the blank after the colon included.
result_file_regex(m) ==
    m.importance /= "" /\ m.file /\ m.position /\ m.message

\* The line process_line writes for a classified line: 1 when the
\* result_file_regex matches what _build_message has rendered.
result_line(importance, task) ==
    IF result_file_regex(build_message(importance, task.captures))
    THEN 1 ELSE 0

\* A classifier that never takes a warning for an error.
warning_is_error_never(task) == FALSE

\* The test of line 511.
warning_is_error(task) == task.warnings_as_errors

\* process_line, lines 479-537.
process_line(snk, task, line) ==
    LET hide == match_line(line, task.hide_regex)
        show == ~task.allow_hide_errors \/ ~hide
    IN  IF match_line(line, error_regex(task))
        THEN LET s1 == [snk EXCEPT !.has_errors = TRUE]
             IN  IF show THEN write(s1, "ERROR", result_line("ERROR", task))
                 ELSE s1
        ELSE IF match_line(line, task.warning_regex)
        THEN IF warning_is_error(task)
             THEN LET s1 == [snk EXCEPT !.has_errors = TRUE]
                  IN  IF show
                      THEN write(s1, "ERROR", result_line("ERROR", task))
                      ELSE s1
             ELSE IF ~hide
             THEN write(snk, "WARNING", result_line("WARNING", task))
             ELSE snk
        ELSE IF match_line(line, task.message_regex)
        THEN IF ~hide THEN write(snk, "MESSAGE", 0) ELSE snk
        ELSE IF ~snk.quiet THEN write(snk, "plain", 0) ELSE snk

\* A loop that takes no line for empty.
is_empty_line_never(line) == FALSE

\* The test of line 460: the line is the empty string.
is_empty_line(line) == line = <<>>

\* The loop of append_data, lines 449-475, over the lines of a process.  st
\* is [sink, skip_lines, raised, at]: reading self.temp_str before it was
\* ever assigned raises AttributeError, which ends the callback where it
\* stands; at is the number of lines the loop has taken, so that after a
\* raise it is the position of the line that was being classified.
RECURSIVE walk_lines(_, _, _)
walk_lines(lines, task, st) ==
    IF lines = <<>> \/ st.raised THEN st
    ELSE LET line == lines[1]
             rest == Tail(lines)
             s0   == [st EXCEPT !.at = @ + 1]
         IN  IF st.skip_lines > 0
             THEN walk_lines(rest, task, [s0 EXCEPT !.skip_lines = @ - 1])
             ELSE IF is_empty_line(line) THEN walk_lines(rest, task, s0)
             ELSE IF ~st.sink.has_temp_str THEN [s0 EXCEPT !.raised = TRUE]
             ELSE IF match_line(line, task.line_regex)
             THEN walk_lines(rest, task,
                      [s0 EXCEPT !.sink.temp_str = @ \o <<"$n$">> \o line])
             ELSE walk_lines(rest, task,
                      [s0 EXCEPT !.sink =
                          [process_line(st.sink, task, st.sink.temp_str)
                              EXCEPT !.temp_str = line,
                                     !.has_temp_str = TRUE]])

\* A sink that takes every chunk for text in its encoding.
decodes_always(data) == TRUE

\* A chunk that does not decode holds the character "BAD" (lines 420-424).
decodes(data) == \A i \in 1..Len(data) : data[i] /= "BAD"

\* A sink that takes every handle for its current process.
is_stale_never(snk, p) == FALSE

\* The test of append_data (lines 416-418) and finish (lines 553-554): the
\* handle is not the current process of the sink.
is_stale(snk, p) == p /= snk.proc

\* append_data(proc, data), lines 415-477, for a chunk of the handle p with
\* the record prc: the new sink and the new record of the handle, whether
\* the loop over the lines raised, and the number of lines it had taken.
append_data(snk, p, prc, data) ==
    IF is_stale(snk, p)
    THEN [sink |-> snk, proc |-> prc, raised |-> FALSE, at |-> 0]
    ELSE IF ~decodes(data)
    THEN [sink |-> write(snk, "decode_error", 0), proc |-> prc,
          raised |-> FALSE, at |-> 0]
    ELSE LET sp == SplitChunk(prc.buffer, data)
             st == walk_lines(sp.lines, prc.task,
                       [sink |-> snk, skip_lines |-> prc.skip_lines,
                        raised |-> FALSE, at |-> 0])
         IN  [sink |-> st.sink,
              proc |-> [prc EXCEPT !.buffer = sp.buffer,
                                   !.skip_lines = st.skip_lines],
              raised |-> st.raised, at |-> st.at]

\* exit_code(): proc.poll() is None (-1 here) until the OS process exited.
exit_code(prc) == IF prc.os = "exited" THEN prc.code ELSE -1

\* process_print(message), lines 345-348: append_data(self.proc, ...) of
\* the message and a line feed.  r is [sink, proc, raised]; nothing is done
\* once a call has raised.
process_print(r, p, message) ==
    IF r.raised THEN r
    ELSE LET Appended(a) ==
                 [sink |-> a.sink, proc |-> a.proc, raised |-> a.raised]
         IN  Appended(append_data(r.sink, p, r.proc, message \o <<"LF">>))

\* proc.completion_callback(self), line 561: [sink, proc, raised, result].
\* The completion callback of a task is "none" (None), "false"
\* (BuildSolutionPhase.task_complete: returns False and leaves the sink
\* alone), "true" (a callback that returns True) or "stylecop"
\* (StyleCopPhase.task_complete with one violation in the results file:
\* print_violations prints an empty line and the violation through
\* process_print and returns count > 0).
completion_callback(snk, p, prc) ==
    LET r0 == [sink |-> snk, proc |-> prc, raised |-> FALSE]
        cb == prc.task.completion_callback
        Printed(r) == [sink |-> r.sink, proc |-> r.proc, raised |-> r.raised,
                       result |-> TRUE]
    IN  IF cb = "stylecop"
        THEN Printed(process_print(process_print(r0, p, <<>>), p, <<"e">>))
        ELSE [sink |-> snk, proc |-> prc, raised |-> FALSE,
              result |-> (cb = "true")]

\* A finish that does not look at what the completion callback returns.
callback_error_never(result) == FALSE

\* The test of line 561.
callback_error(result) == result

\* finish(proc), lines 552-564: [sink, proc, raised].  An exception of the
\* completion callback leaves finish at line 561, before _running is
\* reset.  called counts the calls of the completion callback of the handle.
finish(snk, p, prc) ==
    IF is_stale(snk, p) THEN [sink |-> snk, proc |-> prc, raised |-> FALSE]
    ELSE LET s1 == IF exit_code(prc) /= -1 /\ exit_code(prc) /= 0
                   THEN [snk EXCEPT !.has_errors = TRUE] ELSE snk
             Called(cb) ==
                 IF cb.raised
                 THEN [sink |-> cb.sink,
                       proc |-> [cb.proc EXCEPT !.called = @ + 1],
                       raised |-> TRUE]
                 ELSE [sink |-> [cb.sink EXCEPT
                                    !.has_errors =
                                        @ \/ callback_error(cb.result),
                                    !.running = FALSE],
                       proc |-> [cb.proc EXCEPT !.called = @ + 1],
                       raised |-> FALSE]
         IN  IF prc.task.completion_callback = "none"
             THEN [sink |-> [s1 EXCEPT !.running = FALSE], proc |-> prc,
                   raised |-> FALSE]
             ELSE Called(completion_callback(s1, p, prc))

\* find_all_results(): the lines of the view the result_file_regex of
\* line 243 matches.
find_all_results(snk) ==
    {i \in 1..Len(snk.log) : snk.log[i].k \in {"ERROR", "WARNING"}
                              /\ snk.log[i].n = 1}

\* done(), lines 566-589.
done(snk) ==
    IF find_all_results(snk) /= {}
    THEN write([snk EXCEPT !.has_errors = TRUE], "finished with N errors", 0)
    ELSE IF snk.has_errors THEN write(snk, "finished with errors", 0)
    ELSE write(snk, "successful", 0)

\* ------------------------------------------------------------------- state
VARIABLES
    exec,           \* AdvancedBuilderCommand._exec: the sink of the build in
                    \* progress, 0 for None (and _settings with it)
    stop,           \* AdvancedBuilderCommand._stop
    phases,         \* AdvancedBuilderCommand._phases, <<>> also for None
    current_phase,  \* AdvancedBuilderCommand._current_phase, <<>> for None
    settings,       \* the AdvancedBuilderSettings of every build so far
    sink,           \* the OutputWindowController of every build so far
    procs,          \* every AsyncBuildProcess constructed so far
    queue,          \* the callbacks posted with sublime.set_timeout(f, 0)
    chunks,         \* the number of chunks the readers have read so far
    last,           \* what the callback the main thread ran last did with
                    \* its handle: "stale" (dropped), "current", or "" when
                    \* the last step was no posted callback
    timers,         \* the pending _run_tasks callbacks, each named by the
                    \* build whose run_command started its polling loop
    environ,        \* os.environ["PATH"] of the editor's process
    lb_text,        \* line buffer specification: the text still to deliver
    lb_chunks,      \* ... the chunks delivered so far
    lb_lines,       \* ... the complete lines split off so far
    lb_buffer,      \* ... the fragment held in proc.buffer
    cl_sink,        \* classifier specification: the sink
    cl_prc,         \* ... the handle of its current process
    cl_last,        \* ... the call made last, with its arguments
    ph_handle,      \* process handle specification: the AsyncBuildProcess
    ph_reader,      \* ... the position of each of its two reader threads
    ph_obs,         \* ... what was observed of the calls made so far
    sr_phase,       \* phase specification: the configuration of the phase
    sr_active,      \* ... the active configuration, task and file
    sr_obj,         \* ... the phase object
    sr_result,      \* ... what should_run() of the object did
    sv_results,     \* ... the results file and the limit of a StyleCop phase
    sv_call         \* ... what print_violations did with them

vars == <<exec, stop, phases, current_phase, settings, sink, procs, queue,
          chunks, last, timers, environ, lb_text, lb_chunks, lb_lines, lb_buffer,
          cl_sink, cl_prc, cl_last, ph_handle, ph_reader, ph_obs,
          sr_phase, sr_active, sr_obj, sr_result, sv_results, sv_call>>

engine == <<exec, stop, phases, current_phase, settings, sink, procs, queue,
            chunks, last, timers, environ>>

lb == <<lb_text, lb_chunks, lb_lines, lb_buffer>>

cl == <<cl_sink, cl_prc, cl_last>>

hd == <<ph_handle, ph_reader, ph_obs>>

sr == <<sr_phase, sr_active, sr_obj, sr_result, sv_results, sv_call>>

\* Number of files in a results file of StyleCop.
MaxFiles == 3
\* Number of violations of one file, and the largest limit_results.
MaxViolations == 2

\* ------------------------------------------------------------------ inputs
\* The phase lists a build is configured with.  A phase runs a command
\* that exists ("ok") or cannot be started ("missing"), with either
\* stop_on_error; the phase Skip does not apply to the active configuration.
Cmd(n, cmd, so) == Phase(n, TRUE, TRUE, so, <<Task(cmd, "none")>>)

Skip(n) == Phase(n, TRUE, FALSE, TRUE, <<Task("ok", "none")>>)

\* A command phase whose task dictionary holds "kill": true.
KillCmd(n, so) ==
    Phase(n, TRUE, TRUE, so, <<[Task("ok", "none") EXCEPT !.kill = TRUE]>>)

\* A phase of an unknown or missing type (_get_phase_object returns None)
\* or one whose is_valid() is false.
Invalid(n) == Phase(n, FALSE, TRUE, TRUE, <<>>)

PhaseLists ==
    { << Cmd(1, "ok", TRUE), KillCmd(2, TRUE) >>,
      << Cmd(1, "ok", FALSE), Skip(2), Cmd(3, "missing", TRUE),
         Cmd(4, "ok", TRUE) >>,
      << Cmd(1, "ok", TRUE), Invalid(2) >> }

\* The arguments of a build request, as AdvancedBuilderSettings reads them:
\* every phase list as an ordinary build, and a list that begins with a
\* phase that does not apply as a quiet build and as a build of all phases.
BuildArgs ==
    { [phases |-> ps, quiet |-> FALSE, build_all |-> FALSE] :
          ps \in PhaseLists }
    \cup { [phases |-> << Skip(1), Cmd(2, "ok", TRUE) >>,
             quiet |-> q, build_all |-> ~q] : q \in BOOLEAN }

\* The chunks a reader delivers.
Chunks == { <<"p">>, <<"e", "LF">> }

\* The exit codes of a process.
ExitCodes == {0, 1}

\* --------------------------------------------------------- process handle
\* AsyncBuildProcess.__init__, lines 87-114, for the task of the phase
\* named phase, started by the sink b.  code is the exit code of the OS
\* process, known to the OS once the process has begun to end; exit_seen
\* records what exit_code() returned to finish() (-2: finish() has not
\* asked, -1: None); got_error records that append_data was handed, for
\* this handle as the current process, a complete line its error pattern
\* matches; called counts the calls of its completion callback.
NewProc(b, phase, task) ==
    [sink |-> b, phase |-> phase, task |-> task, buffer |-> <<>>,
     skip_lines |-> task.skip_lines, killed |-> FALSE, listener |-> TRUE,
     os |-> "running", code |-> 0, exit_seen |-> -2, got_error |-> FALSE,
     called |-> 0]

\* proc.terminate() of kill(), line 188, raises: Popen.terminate() is
\* os.kill(pid, SIGTERM) in the Python of the editor (2.6 and 3.3), and the
\* pid of a process whose exit status poll() has collected (exit_code() in
\* finish() returned it) is gone.  On win32 taskkill is started instead
\* (line 186) and nothing is raised.
kill_raises(prc, posix) == posix /\ ~prc.killed /\ prc.exit_seen >= 0

\* The handle by itself, with the threads that run its code apart: killed,
\* listener (set or None), the number of termination requests sent to the
\* OS process, the state of the OS process ("running", "exited", or
\* "reaped" once poll() has collected its exit status) and the position of
\* the main thread in kill().
NewHandle ==
    [killed |-> FALSE, listener |-> TRUE, terminations |-> 0,
     os |-> "running", pc |-> "idle"]

\* The two reader threads __init__ starts (lines 166-170).
Readers == {"stdout", "stderr"}

\* What is observed of a handle: the kill() calls that returned, the ones
\* that raised, the chunks read, and whether a call reached the listener
\* after a kill() call had returned.
NoObs == [kills |-> 0, raised |-> 0, reads |-> 0, late |-> FALSE]

\* AsyncBuildProcess.kill, lines 178-189.
kill_proc(prc) ==
    IF ~prc.killed THEN [prc EXCEPT !.killed = TRUE, !.listener = FALSE]
    ELSE prc

\* ---------------------------------------------------------- the scheduler
\* AsyncBuildProcess.__init__ raises an exception that is no OSError:
\* ValueError for a task with neither cmd nor shell_cmd (lines 81-82), and
\* TypeError in Python 3 for a task with a search-path fragment (line 129:
\* os.environ takes str only and is handed the bytes encode() returns).
init_raises(task, py3) == task.cmd = "empty" \/ (py3 /\ task.path /= "")

\* os.environ["PATH"] after AsyncBuildProcess.__init__ was left, lines
\* 125-164, for a task that got as far as subprocess.Popen: the fragment is
\* set (line 129) and the old value is put back only on the way past line
\* 164, which a Popen that raises does not take.
path_after(env, task) ==
    IF task.path /= "" /\ task.cmd /= "ok" THEN task.path ELSE env

\* OutputWindowController.run(**task), lines 273-331, called by the sink b
\* for the phase ph.  st is [snk, procs, environ]: the sink, the handles
\* so far and the PATH of the editor's process; py3 is the Python of the
\* editor (3.3 in Sublime Text 3, 2.6 in Sublime Text 2).  The result has
\* raised when an exception leaves run.
\* With kill (lines 282-287) a process that poll() finds running is killed
\* and append_data(None, "[Cancelled]") is called with a str: str has no
\* decode() in Python 3, the bare except of lines 420-424 takes it for a
\* decode error and that line is written.  In Python 2 the text decodes,
\* has no line feed, and nothing at all is written.
run(st, b, ph, py3) ==
    LET task == ph.task[1]
        old  == st.snk.proc
        kill == task.kill /\ old /= 0 /\ st.procs[old].os /= "exited"
        s0   == IF kill
                THEN LET sk == [st.snk EXCEPT !.has_errors = FALSE,
                                              !.proc = 0]
                     IN  IF py3 THEN write(sk, "decode_error", 0) ELSE sk
                ELSE [st.snk EXCEPT !.has_errors = FALSE]
        ps   == IF kill THEN [st.procs EXCEPT ![old] = kill_proc(@)]
                ELSE st.procs
    IN  IF init_raises(task, py3)
        THEN [snk |-> s0, procs |-> ps, environ |-> st.environ,
              raised |-> TRUE]
        ELSE IF task.cmd = "ok"
        THEN [snk   |-> [s0 EXCEPT !.proc = Len(ps) + 1,
                                   !.running = TRUE],
              procs |-> Append(ps, NewProc(b, ph.name, task)),
              environ |-> path_after(st.environ, task),
              raised |-> FALSE]
        ELSE LET s1 == write(write(write(write(s0, "OSError", ph.name),
                           "[cmd:", 0), "[dir:", 0), "[path:", 0)
             IN  [snk   |-> IF ~s0.quiet THEN write(s1, "[Finished]", 0)
                            ELSE s1,
                  procs |-> ps,
                  environ |-> path_after(st.environ, task),
                  raised |-> FALSE]

\* A scheduler that does not look at build_all.
applies_should_run(cfg, ph) == ph.should_run

\* The test of _run_new_phase, line 746.
applies(cfg, ph) == cfg.build_all \/ ph.should_run

\* _run_new_phase(phase), lines 745-759: [snk, procs, environ, started,
\* raised].
run_new_phase(st, b, cfg, ph, py3) ==
    IF ~applies(cfg, ph)
    THEN [snk     |-> IF ~cfg.quiet THEN write(st.snk, "Skipped", ph.name)
                      ELSE st.snk,
          procs   |-> st.procs, environ |-> st.environ,
          started |-> FALSE, raised |-> FALSE]
    ELSE IF ph.task = <<>>
    THEN [snk |-> st.snk, procs |-> st.procs, environ |-> st.environ,
          started |-> FALSE, raised |-> FALSE]
    ELSE LET IsRunning(r) ==
                 [snk |-> r.snk, procs |-> r.procs, environ |-> r.environ,
                  started |-> ~r.raised /\ r.snk.running,
                  raised |-> r.raised]
         IN  IsRunning(run([snk   |-> write(st.snk, "phase", ph.name),
                            procs |-> st.procs, environ |-> st.environ],
                           b, ph, py3))

\* A scheduler that takes the last phase of the queue for the next one.
next_phase_last(phs) == phs[Len(phs)]

\* The phase _run_tasks takes next, line 736: self._phases[0].
next_phase(phs) == Head(phs)

\* The loop of _run_tasks, lines 729-743.  st is [snk, procs, environ,
\* phases, current_phase, started, raised]; started is false when the queue
\* ran empty and done() was called, raised is true when an exception of
\* _run_new_phase ended the loop.
RECURSIVE start_next(_, _, _, _)
start_next(st, b, cfg, py3) ==
    IF st.phases = <<>>
    THEN [st EXCEPT !.snk = done(@)]
    ELSE LET Go(s1) == IF s1.started \/ s1.raised THEN s1
                        ELSE start_next(s1, b, cfg, py3)
             Started(ph, r) ==
                 Go([snk |-> r.snk, procs |-> r.procs, environ |-> r.environ,
                     phases |-> Tail(st.phases), current_phase |-> <<ph>>,
                     started |-> r.started, raised |-> r.raised])
             Take(ph) ==
                 Started(ph, run_new_phase([snk |-> st.snk,
                                            procs |-> st.procs,
                                            environ |-> st.environ],
                                           b, cfg, ph, py3))
         IN  Take(next_phase(st.phases))

\* A scheduler that goes on to the next phase whatever the last one did.
stop_on_error_never(snk, cur) == FALSE

\* The test of _run_tasks, line 720.
stop_on_error(snk, cur) ==
    snk.has_errors /\ cur /= <<>> /\ cur[1].stop_on_error

\* OutputWindowController.kill, lines 591-606, and the line cancel_command
\* writes (line 660): the sink of the cancelled build.
cancel_sink(snk) ==
    LET s1 == write([snk EXCEPT !.proc = 0], "interrupted", 0)
    IN  IF ~snk.quiet THEN write(s1, "Killed", 0) ELSE s1

\* A cancellation that leaves the current process running.
cancel_procs_nokill(ps, snk) == ps

\* OutputWindowController.kill, lines 592-593: the handles after the
\* current process of the sink snk was killed.
cancel_procs(ps, snk) ==
    IF snk.proc /= 0 THEN [ps EXCEPT ![snk.proc] = kill_proc(@)] ELSE ps

\* ------------------------------------------------------------ build phase
\* The configuration of one phase (the keyword arguments of init): its
\* type, the lists configurations and tasks (<<>> is None, <<S>> the list of
\* the members of S) and the path selector ("nil" is None, else the
\* directory it names).  An active file lies in the directory "sel" the
\* path selector names, in the directory "own" of the solution or the path
\* of the phase itself, or in the directory "other".
PhaseConfig(type, configurations, tasks, path_selector) ==
    [type |-> type, configurations |-> configurations, tasks |-> tasks,
     path_selector |-> path_selector]

\* A phase object before init: no attribute is set.
NewPhaseObject ==
    [state |-> "new", type |-> "", path_selector |-> "nil",
     configurations |-> <<>>, has_tasks |-> FALSE, tasks |-> <<>>,
     has_own_path |-> FALSE, raised |-> FALSE, is_valid |-> FALSE]

\* _invalidate, build_phase.py lines 77-92.
invalidate(o) == [o EXCEPT !.is_valid = FALSE]

\* BuildPhase.init, build_phase.py lines 36-68.  Lines 42-47 set
\* path_selector, configurations and the type from the keyword arguments;
\* line 46 sets _is_valid, which lines 57-62 take back for a phase without
\* a type or with an empty list of configurations; no line sets self.tasks
\* and the class has no such attribute, so the test of line 63 raises
\* AttributeError.
BuildPhase_init(o, kw) ==
    LET o0 == [o EXCEPT !.type = kw.type,
                        !.path_selector = kw.path_selector,
                        !.configurations = kw.configurations,
                        !.is_valid = TRUE]
        o1 == IF kw.type = "" \/ kw.configurations = <<{}>>
              THEN invalidate(o0) ELSE o0
    IN  IF ~o1.has_tasks THEN [o1 EXCEPT !.raised = TRUE]
        ELSE IF o1.tasks = <<>> THEN [o1 EXCEPT !.tasks = <<{"Build"}>>]
        ELSE IF o1.tasks = <<{}>> THEN invalidate(o1)
        ELSE o1

\* init of the phase classes: BuildPhase.init first, then the attributes of
\* the class itself (_solution of BuildSolutionPhase, build_solution_phase.py
\* lines 53-55; _path of StyleCopPhase, stylecop_phase.py lines 53-55),
\* which an exception of BuildPhase.init leaves unset.
phase_init(o, kw) ==
    LET o1 == BuildPhase_init(o, kw)
    IN  [(IF o1.raised THEN o1 ELSE [o1 EXCEPT !.has_own_path = TRUE])
            EXCEPT !.state = "initialised"]

\* check_configuration, build_phase.py lines 94-95.
check_configuration(o, a) ==
    o.configurations = <<>> \/ a.configuration \in o.configurations[1]

\* check_task, build_phase.py lines 97-98: [raised, value].
check_task(o, a) ==
    IF ~o.has_tasks THEN [raised |-> TRUE, value |-> FALSE]
    ELSE [raised |-> FALSE,
          value |-> o.tasks = <<>> \/ a.task \in o.tasks[1]]

\* The types whose should_run takes the directory of the phase itself when
\* no path selector is configured: BuildSolutionPhase and
\* BuildUnitySolutionPhase (build_solution_phase.py lines 73-76) and
\* StyleCopPhase (stylecop_phase.py lines 90-92).
OwnPathTypes == {"solution", "unity", "stylecop"}

\* should_run() of the phase classes: [raised, value].  The path is
\* computed first; check_configuration() and check_task() and the test of the
\* active file are joined with "and", which ends at the first false one.
should_run(o, a) ==
    LET own  == o.path_selector = "nil" /\ o.type \in OwnPathTypes
        path == IF own THEN "own" ELSE o.path_selector
    IN  IF own /\ ~o.has_own_path THEN [raised |-> TRUE, value |-> FALSE]
        ELSE IF ~check_configuration(o, a)
        THEN [raised |-> FALSE, value |-> FALSE]
        ELSE IF check_task(o, a).raised THEN [raised |-> TRUE, value |-> FALSE]
        ELSE [raised |-> FALSE,
              value |-> check_task(o, a).value
                        /\ (path = "nil" \/ a.file = path)]

\* The types whose get_task() starts from a command template of the
\* project, settings.command("build_solution") (build_solution_phase.py line
\* 94, BuildUnitySolutionPhase inherits it) or settings.command("copy")
\* (copy_files_phase.py line 99), before it reads an attribute of its own.
TemplateTypes == {"solution", "unity", "copy"}

\* get_task() of the phase classes: the object after the call, with the
\* state "tasked", or "task_raised" when the call raised.  Without the
\* template the phase invalidates itself and returns None
\* (build_solution_phase.py lines 95-97, copy_files_phase.py lines 100-102).
\* StyleCopPhase reads self._path first (stylecop_phase.py line 143) and
\* then does the same (lines 145-148); RunCommandPhase reads self._command
\* (run_command_phase.py lines 76-79) and never invalidates; both attributes
\* are unset when BuildPhase.init raised.
get_task(o, defined) ==
    IF o.type \notin TemplateTypes /\ ~o.has_own_path
    THEN [o EXCEPT !.state = "task_raised"]
    ELSE IF o.type /= "command" /\ ~defined
    THEN [invalidate(o) EXCEPT !.state = "tasked"]
    ELSE [o EXCEPT !.state = "tasked"]

\* ----------------------------------------------------------------- actions
EngineInit ==
    /\ exec = 0
    /\ stop = FALSE
    /\ phases = <<>>
    /\ current_phase = <<>>
    /\ settings = <<>>
    /\ sink = <<>>
    /\ procs = <<>>
    /\ queue = <<>>
    /\ chunks = 0
    /\ last = ""
    /\ timers = {}
    /\ environ = "PATH"

\* The specifications of the parts, before anything is done with them.
LBIdle ==
    /\ lb_text = <<>>
    /\ lb_chunks = <<>>
    /\ lb_lines = <<>>
    /\ lb_buffer = <<>>

NoCall ==
    [op |-> "", n |-> 0, before |-> NewSink(FALSE), line |-> <<>>,
     lines |-> <<>>, skip |-> 0, at |-> 0, raised |-> FALSE, data |-> <<>>]

CLIdle ==
    /\ cl_sink = NewSink(FALSE)
    /\ cl_prc = NewProc(0, 0, Task("ok", "none"))
    /\ cl_last = NoCall

PHIdle ==
    /\ ph_handle = NewHandle
    /\ ph_reader = [r \in Readers |-> [pc |-> "done", eof |-> FALSE]]
    /\ ph_obs = NoObs

\* The results file of StyleCop and the limit of the phase: whether the file
\* exists, the number of Violation elements of each of its File elements,
\* and _result_limit (stylecop_phase.py lines 56, 65-66).
ResultsFile(exists, files, limit) ==
    [exists |-> exists, files |-> files, limit |-> limit]

\* print_violations before it is called: the sink with a current process,
\* the handle of that process, and what the call did: whether it returned
\* or raised, what it returned, count, and the violation lines and the other
\* lines process_print took without an exception.
NoViolationsCall ==
    [state |-> "new", sink |-> [NewSink(FALSE) EXCEPT !.proc = 1,
                                                      !.running = TRUE],
     proc |-> NewProc(1, 1, Task("ok", "stylecop")), raised |-> FALSE,
     value |-> FALSE, count |-> 0, violations |-> 0, notes |-> 0]

\* window_controller.process_print(message) of print_violations, for a
\* violation line or another line; nothing is done once a call has raised.
sv_print(c, message, violation) ==
    LET Taken(r) ==
            [c EXCEPT !.sink = r.sink, !.proc = r.proc, !.raised = r.raised,
                      !.violations = IF violation /\ ~r.raised
                                     THEN @ + 1 ELSE @,
                      !.notes = IF ~violation /\ ~r.raised /\ message /= <<>>
                                THEN @ + 1 ELSE @]
    IN  IF c.raised THEN c
        ELSE Taken(process_print([sink |-> c.sink, proc |-> c.proc,
                                  raised |-> FALSE], 1, message))

\* The loop over the violations of one file, stylecop_phase.py lines
\* 206-214: a line and count += 1 for each of the n violations.
RECURSIVE print_file(_, _)
print_file(c, n) ==
    IF n = 0 \/ c.raised THEN c
    ELSE LET Counted(c1) ==
                 IF c1.raised THEN c1 ELSE [c1 EXCEPT !.count = @ + 1]
         IN  print_file(Counted(sv_print(c, <<"e">>, TRUE)), n - 1)

\* The loop over the files, stylecop_phase.py lines 198-214: the limit is
\* looked at before each file, with count > limit, and a limit of 0 is equal
\* to False.
RECURSIVE print_files(_, _, _)
print_files(c, files, limit) ==
    IF files = <<>> \/ c.raised THEN c
    ELSE IF limit /= 0 /\ c.count > limit
    THEN sv_print(c, <<"p">>, FALSE)
    ELSE print_files(print_file(c, files[1]), Tail(files), limit)

\* print_violations(path, window_controller), stylecop_phase.py lines
\* 173-216.
print_violations(c, res) ==
    LET Returned(c1) ==
            IF c1.raised THEN [c1 EXCEPT !.state = "raised"]
            ELSE [c1 EXCEPT !.state = "returned"]
        Counted(c1) ==
            IF c1.raised THEN [c1 EXCEPT !.state = "raised"]
            ELSE [c1 EXCEPT !.state = "returned", !.value = c1.count > 0]
        c0 == sv_print(c, <<>>, FALSE)
    IN  IF ~res.exists \/ res.files = <<>>
        THEN Returned(sv_print(c0, <<"p">>, FALSE))
        ELSE Counted(print_files(c0, res.files, res.limit))

NotCalled == [called |-> FALSE, raised |-> FALSE, value |-> FALSE]

SRIdle ==
    /\ sr_phase = PhaseConfig("", <<>>, <<>>, "nil")
    /\ sr_active = [configuration |-> "", task |-> "", file |-> ""]
    /\ sr_obj = NewPhaseObject
    /\ sr_result = NotCalled
    /\ sv_results = ResultsFile(FALSE, <<>>, 0)
    /\ sv_call = NoViolationsCall

Init ==
    /\ EngineInit
    /\ SRIdle
    /\ LBIdle
    /\ CLIdle
    /\ PHIdle

\* AdvancedBuilderCommand.run(kill=True), lines 633-642, with a build in
\* progress: cancel_command and _cleanup_command.  Without one the request
\* only prints "No task to kill".
\* When proc.kill() raises (kill_raises), the exception leaves kill() after
\* line 180, OutputWindowController.kill after line 593 and cancel_command
\* after line 657: the handle is marked killed and nothing else is done.
RunKill(posix) ==
    /\ exec /= 0
    /\ IF sink[exec].proc /= 0 /\ kill_raises(procs[sink[exec].proc], posix)
       THEN /\ procs' = [procs EXCEPT ![sink[exec].proc].killed = TRUE]
            /\ UNCHANGED <<exec, stop, phases, current_phase, sink>>
       ELSE /\ sink' = [sink EXCEPT ![exec] = cancel_sink(@)]
            /\ procs' = cancel_procs(procs, sink[exec])
            /\ stop' = TRUE
            /\ exec' = 0
            /\ phases' = <<>>
            /\ current_phase' = <<>>
    /\ UNCHANGED <<settings, queue, chunks, timers, environ, lb, cl, hd, sr>>
    /\ last' = ""

\* AdvancedBuilderCommand.run(**args), lines 644-654, and run_command: a
\* build request; with a build in progress the user answers the dialog with
\* "Stop" (answering "Cancel" leaves everything as it is).  A request whose
\* cancel_command raises is the failed cancellation of RunKill.
RunBuild(args, posix) ==
    /\ Len(sink) < MaxBuilds
    /\ ~(exec /= 0 /\ sink[exec].proc /= 0
           /\ kill_raises(procs[sink[exec].proc], posix))
    /\ LET b       == Len(sink) + 1
           sinkC   == IF exec /= 0 THEN [sink EXCEPT ![exec] = cancel_sink(@)]
                      ELSE sink
           invalid == {i \in DOMAIN args.phases : ~args.phases[i].valid}
           first   == CHOOSE i \in invalid : \A j \in invalid : i <= j
       IN  /\ procs' = IF exec /= 0 THEN cancel_procs(procs, sink[exec])
                       ELSE procs
           /\ settings' = Append(settings, args)
           /\ exec' = b
           /\ current_phase' = <<>>
           /\ stop' = FALSE
           /\ IF invalid = {}
              THEN /\ sink' = Append(sinkC, NewSink(args.quiet))
                   /\ phases' = args.phases
                   /\ timers' = timers \cup {b}
              ELSE /\ sink' = Append(sinkC, write(NewSink(args.quiet),
                                                  "Invalid config", first))
                   /\ phases' = SubSeq(args.phases, 1, first - 1)
                   /\ timers' = timers
    /\ UNCHANGED <<queue, chunks, environ, lb, cl, hd, sr>>
    /\ last' = ""

\* _run_tasks, lines 693-743: the pending poll callback of the loop o runs.
\* An exception that leaves _run_new_phase ends the callback before line
\* 743: the timer is not set again.
Poll(o, py3) ==
    /\ o \in timers
    /\ IF stop
       THEN /\ stop' = FALSE
            /\ timers' = timers \ {o}
            /\ UNCHANGED <<exec, phases, current_phase, sink, procs, environ>>
       ELSE IF exec = 0
       THEN \* self._exec is None: is_running() raises AttributeError
            /\ timers' = timers \ {o}
            /\ UNCHANGED <<exec, stop, phases, current_phase, sink, procs,
                           environ>>
       ELSE IF sink[exec].running
       THEN UNCHANGED <<exec, stop, phases, current_phase, sink, procs,
                        timers, environ>>
       ELSE IF phases = <<>>
       THEN /\ sink' = [sink EXCEPT ![exec] = done(@)]
            /\ exec' = 0
            /\ phases' = <<>>
            /\ current_phase' = <<>>
            /\ timers' = timers \ {o}
            /\ UNCHANGED <<stop, procs, environ>>
       ELSE IF stop_on_error(sink[exec], current_phase)
       THEN /\ sink' = [sink EXCEPT ![exec] =
                           done(IF ~@.quiet THEN write(@, "has errors, stopping", 0)
                                ELSE @)]
            /\ exec' = 0
            /\ phases' = <<>>
            /\ current_phase' = <<>>
            /\ timers' = timers \ {o}
            /\ UNCHANGED <<stop, procs, environ>>
       ELSE LET Loop(r) ==
                    /\ Len(r.procs) <= MaxProcs
                    /\ sink' = [sink EXCEPT ![exec] = r.snk]
                    /\ procs' = r.procs
                    /\ environ' = r.environ
                    /\ IF r.raised
                       THEN /\ exec' = exec
                            /\ phases' = r.phases
                            /\ current_phase' = r.current_phase
                            /\ timers' = timers \ {o}
                       ELSE IF r.started
                       THEN /\ exec' = exec
                            /\ phases' = r.phases
                            /\ current_phase' = r.current_phase
                            /\ timers' = timers
                       ELSE /\ exec' = 0
                            /\ phases' = <<>>
                            /\ current_phase' = <<>>
                            /\ timers' = timers \ {o}
                    /\ stop' = stop
            IN  Loop(start_next([snk |-> sink[exec], procs |-> procs,
                                 environ |-> environ,
                                 phases |-> phases,
                                 current_phase |-> current_phase,
                                 started |-> FALSE, raised |-> FALSE],
                                exec, settings[exec], py3))
    /\ UNCHANGED <<settings, queue, chunks, lb, cl, hd, sr>>
    /\ last' = ""

\* A main thread that runs the callback posted last first.
post_first(q, e) == <<e>> \o q

\* on_data and on_finished, lines 608-615: sublime.set_timeout(callback, 0)
\* puts the callback behind those already waiting for the main thread.
post(q, e) == Append(q, e)

\* read_stdout, lines 202-207: the reader of standard output of the handle
\* p read the chunk data; on_data posts append_data to the main thread.  The
\* readers of a handle whose listener was detached drop what they read, and
\* nothing of a killed handle is looked at again: its steps are left out.
ReadStdout(p, data) ==
    /\ procs[p].listener
    /\ procs[p].os = "running"
    /\ chunks < MaxChunks
    /\ chunks' = chunks + 1
    /\ queue' = IF procs[p].listener
                THEN post(queue, [type |-> "data", sink |-> procs[p].sink,
                                  proc |-> p, data |-> data])
                ELSE queue
    /\ UNCHANGED <<exec, stop, phases, current_phase, settings, sink, procs,
                   timers, environ, lb, cl, hd, sr>>
    /\ last' = ""

\* read_stderr, lines 215-220: the same for the reader of standard error,
\* which may still read after the other reader found the end of its stream.
ReadStderr(p, data) ==
    /\ procs[p].listener
    /\ chunks < MaxChunks
    /\ chunks' = chunks + 1
    /\ queue' = IF procs[p].listener
                THEN post(queue, [type |-> "data", sink |-> procs[p].sink,
                                  proc |-> p, data |-> data])
                ELSE queue
    /\ UNCHANGED <<exec, stop, phases, current_phase, settings, sink, procs,
                   timers, environ, lb, cl, hd, sr>>
    /\ last' = ""

\* read_stdout, lines 208-212: the OS process begins to end with the exit
\* code code and its standard output is closed; the reader finds the end of
\* the stream and on_finished posts finish to the main thread.
StdoutEOF(p, code) ==
    /\ ~procs[p].killed
    /\ procs[p].os = "running"
    /\ procs' = [procs EXCEPT ![p].os = "closing", ![p].code = code]
    /\ queue' = IF procs[p].listener
                THEN post(queue, [type |-> "finish", sink |-> procs[p].sink,
                                  proc |-> p, data |-> <<>>])
                ELSE queue
    /\ UNCHANGED <<exec, stop, phases, current_phase, settings, sink, chunks,
                   timers, environ, lb, cl, hd, sr>>
    /\ last' = ""

\* The OS process has ended: poll() reports its exit code from now on.
ProcExit(p) ==
    /\ ~procs[p].killed
    /\ procs[p].os = "closing"
    /\ procs' = [procs EXCEPT ![p].os = "exited"]
    /\ UNCHANGED <<exec, stop, phases, current_phase, settings, sink, queue,
                   chunks, timers, environ, lb, cl, hd, sr>>
    /\ last' = ""

\* The chunk data, handed to append_data for the handle p, holds a complete
\* line past the skip budget that the error pattern of the task matches.
error_line(snk, p, prc, data) ==
    /\ ~is_stale(snk, p)
    /\ decodes(data)
    /\ LET lines == SplitChunk(prc.buffer, data).lines
       IN  \E i \in DOMAIN lines :
               i > prc.skip_lines /\ match_line(lines[i], error_regex(prc.task))

\* The main thread runs the callback posted first: append_data(proc, data)
\* or finish(proc) of the sink the callback is bound to.
Deliver ==
    /\ queue /= <<>>
    /\ LET e == Head(queue)
       IN  IF e.type = "data"
           THEN LET Appended(r) ==
                        /\ sink' = [sink EXCEPT ![e.sink] = r.sink]
                        /\ procs' = [procs EXCEPT ![e.proc] =
                                        [r.proc EXCEPT !.got_error =
                                            @ \/ error_line(sink[e.sink],
                                                     e.proc, procs[e.proc],
                                                     e.data)]]
                IN  Appended(append_data(sink[e.sink], e.proc, procs[e.proc],
                                         e.data))
           ELSE LET Finished(r) ==
                        /\ sink' = [sink EXCEPT ![e.sink] = r.sink]
                        /\ procs' = IF is_stale(sink[e.sink], e.proc)
                                    THEN procs
                                    ELSE [procs EXCEPT ![e.proc] =
                                             [r.proc EXCEPT !.exit_seen =
                                                 exit_code(procs[e.proc])]]
                IN  Finished(finish(sink[e.sink], e.proc, procs[e.proc]))
    /\ last' = IF is_stale(sink[Head(queue).sink], Head(queue).proc)
               THEN "stale" ELSE "current"
    /\ queue' = Tail(queue)
    /\ UNCHANGED <<exec, stop, phases, current_phase, settings, chunks, timers,
                   environ, lb, cl, hd, sr>>

Next ==
    \/ \E posix \in BOOLEAN : RunKill(posix)
    \/ \E args \in BuildArgs : \E posix \in BOOLEAN : RunBuild(args, posix)
    \/ \E o \in timers : \E py3 \in BOOLEAN : Poll(o, py3)
    \/ \E p \in DOMAIN procs : \E d \in Chunks : ReadStdout(p, d)
    \/ \E p \in DOMAIN procs : \E d \in Chunks : ReadStderr(p, d)
    \/ \E p \in DOMAIN procs : \E code \in ExitCodes : StdoutEOF(p, code)
    \/ \E p \in DOMAIN procs : ProcExit(p)
    \/ Deliver

Spec == Init /\ [][Next]_vars

\* ------------------------------------------------- tasks specification
\* The engine with phases whose tasks carry what the tasks of PhaseLists do
\* not: a completion callback, a search-path fragment, no command at all.
Callback(n, cb, so) == Phase(n, TRUE, TRUE, so, <<Task("ok", cb)>>)

PathCmd(n, cmd, so) ==
    Phase(n, TRUE, TRUE, so, <<[Task(cmd, "none") EXCEPT !.path = "fragment"]>>)

\* A valid phase whose get_task() returns None: the command template it
\* names is not defined (build_solution_phase.py lines 94-97,
\* stylecop_phase.py lines 145-148, copy_files_phase.py lines 99-102).
NoTask(n, so) == Phase(n, TRUE, TRUE, so, <<>>)

TaskLists ==
    { << Callback(1, "true", FALSE), Callback(2, "false", TRUE) >>,
      << Callback(1, "stylecop", TRUE) >>,
      << PathCmd(1, "missing", FALSE), PathCmd(2, "ok", TRUE) >>,
      << Cmd(1, "empty", TRUE), Cmd(2, "ok", TRUE) >>,
      << NoTask(1, TRUE), Cmd(2, "ok", TRUE) >> }

TaskArgs ==
    { [phases |-> ps, quiet |-> FALSE, build_all |-> FALSE] : ps \in TaskLists }

\* The chunks a reader delivers: text, or bytes that do not decode.
TaskChunks == { <<"e", "LF">>, <<"BAD">> }

NextTasks ==
    \/ \E posix \in BOOLEAN : RunKill(posix)
    \/ \E args \in TaskArgs : \E posix \in BOOLEAN : RunBuild(args, posix)
    \/ \E o \in timers : \E py3 \in BOOLEAN : Poll(o, py3)
    \/ \E p \in DOMAIN procs : \E d \in TaskChunks : ReadStdout(p, d)
    \/ \E p \in DOMAIN procs : \E d \in TaskChunks : ReadStderr(p, d)
    \/ \E p \in DOMAIN procs : \E code \in ExitCodes : StdoutEOF(p, code)
    \/ \E p \in DOMAIN procs : ProcExit(p)
    \/ Deliver

SpecTasks == Init /\ [][NextTasks]_vars

\* -------------------------------------------- termination specification
\* Builds that nobody cancels: a build is requested only when none is in
\* progress and with enough handles left for all of its phases, so that a
\* build never waits for anything but its own processes.
LiveLists ==
    { << Cmd(1, "ok", FALSE), Cmd(2, "missing", TRUE) >>,
      << Cmd(1, "ok", TRUE), Callback(2, "false", TRUE) >>,
      << Callback(1, "stylecop", TRUE) >> }

LiveArgs ==
    { [phases |-> ps, quiet |-> FALSE, build_all |-> FALSE] : ps \in LiveLists }

RunBuildIdle(args) ==
    /\ exec = 0
    /\ Len(procs) + Len(args.phases) <= MaxProcs
    /\ RunBuild(args, FALSE)

NextLive ==
    \/ \E args \in LiveArgs : RunBuildIdle(args)
    \/ \E o \in timers : \E py3 \in BOOLEAN : Poll(o, py3)
    \/ \E p \in DOMAIN procs : \E d \in TaskChunks : ReadStdout(p, d)
    \/ \E p \in DOMAIN procs : \E d \in TaskChunks : ReadStderr(p, d)
    \/ \E p \in DOMAIN procs : \E code \in ExitCodes : StdoutEOF(p, code)
    \/ \E p \in DOMAIN procs : ProcExit(p)
    \/ Deliver

\* The main thread takes the callback posted first from the queue: the
\* steps of Deliver, which is enabled whenever the queue holds a callback.
Delivered == queue /= <<>> /\ queue' = Tail(queue)

\* The callbacks posted with sublime.set_timeout are run by the main thread
\* sooner or later, and every process reaches the end of its standard
\* output.
Fairness ==
    /\ WF_vars(\E o \in timers : \E py3 \in BOOLEAN : Poll(o, py3))
    /\ WF_queue(Delivered)
    /\ \A p \in 1..MaxProcs :
           WF_vars(\E code \in ExitCodes :
                      p \in DOMAIN procs /\ StdoutEOF(p, code))

SpecLive == Init /\ [][NextLive]_vars /\ Fairness

\* ------------------------------------------- line buffer specification
\* The texts a process prints, up to MaxLen characters.
Texts == UNION { [1..n -> Chars] : n \in 0..MaxLen }

InitLB ==
    /\ EngineInit
    /\ SRIdle
    /\ CLIdle
    /\ PHIdle
    /\ lb_text \in Texts
    /\ lb_chunks = <<>>
    /\ lb_lines = <<>>
    /\ lb_buffer = <<>>

\* append_data, lines 426-446, receives the next n characters as one chunk.
Feed(n) ==
    /\ n \in 1..Len(lb_text)
    /\ LET data == SubSeq(lb_text, 1, n)
           r    == SplitChunk(lb_buffer, data)
       IN  /\ lb_chunks' = Append(lb_chunks, data)
           /\ lb_lines' = lb_lines \o r.lines
           /\ lb_buffer' = r.buffer
    /\ lb_text' = SubSeq(lb_text, n + 1, Len(lb_text))
    /\ UNCHANGED <<engine, sr, cl, hd>>

NextLB == \E n \in 1..MaxLen : Feed(n)

SpecLB == InitLB /\ [][NextLB]_vars

\* ------------------------------------------ process handle specification
\* One AsyncBuildProcess, its two reader threads and the thread that calls
\* kill(), each taking one step of its code at a time.
InitPH ==
    /\ EngineInit
    /\ SRIdle
    /\ LBIdle
    /\ CLIdle
    /\ ph_handle = NewHandle
    /\ ph_reader = [r \in Readers |-> [pc |-> "read", eof |-> FALSE]]
    /\ ph_obs = NoObs

\* os.read (lines 203 and 216) returns a chunk.
PHRead(r) ==
    /\ ph_reader[r].pc = "read"
    /\ ph_obs.reads < MaxReads
    /\ ph_reader' = [ph_reader EXCEPT ![r] = [pc |-> "check", eof |-> FALSE]]
    /\ ph_obs' = [ph_obs EXCEPT !.reads = @ + 1]
    /\ UNCHANGED <<engine, sr, lb, cl, ph_handle>>

\* os.read returns nothing: the OS process has ended and the stream is
\* closed (lines 209 and 222); read_stderr ends here (line 223).
PHReadEOF(r) ==
    /\ ph_reader[r].pc = "read"
    /\ ph_handle.os /= "running"
    /\ ph_reader' = [ph_reader EXCEPT ![r] =
                        IF r = "stdout" THEN [pc |-> "check", eof |-> TRUE]
                        ELSE [pc |-> "done", eof |-> TRUE]]
    /\ UNCHANGED <<engine, sr, lb, cl, ph_handle, ph_obs>>

\* The test "if self.listener:" of lines 206, 210 and 219.
PHCheck(r) ==
    /\ ph_reader[r].pc = "check"
    /\ ph_reader' = [ph_reader EXCEPT ![r].pc =
                        IF ph_handle.listener THEN "load"
                        ELSE IF ph_reader[r].eof THEN "done" ELSE "read"]
    /\ UNCHANGED <<engine, sr, lb, cl, ph_handle, ph_obs>>

\* self.listener.on_data / self.listener.on_finished of lines 207, 211 and
\* 220: the attribute is read a second time, and None has neither method
\* (AttributeError ends the reader thread).
PHLoad(r) ==
    /\ ph_reader[r].pc = "load"
    /\ ph_reader' = [ph_reader EXCEPT ![r].pc =
                        IF ph_handle.listener THEN "call" ELSE "fault"]
    /\ UNCHANGED <<engine, sr, lb, cl, ph_handle, ph_obs>>

\* The call of the method just looked up: on_data or on_finished of the
\* listener runs.
PHCall(r) ==
    /\ ph_reader[r].pc = "call"
    /\ ph_reader' = [ph_reader EXCEPT ![r].pc =
                        IF ph_reader[r].eof THEN "done" ELSE "read"]
    /\ ph_obs' = [ph_obs EXCEPT !.late = @ \/ ph_obs.kills > 0]
    /\ UNCHANGED <<engine, sr, lb, cl, ph_handle>>

\* The OS process ends, by itself or because it was terminated.
PHExit ==
    /\ ph_handle.os = "running"
    /\ ph_handle' = [ph_handle EXCEPT !.os = "exited"]
    /\ UNCHANGED <<engine, sr, lb, cl, ph_reader, ph_obs>>

\* exit_code() or poll() (lines 195-199) of a process that has ended:
\* Popen.poll() collects its exit status.
PHPoll ==
    /\ ph_handle.os = "exited"
    /\ ph_handle' = [ph_handle EXCEPT !.os = "reaped"]
    /\ UNCHANGED <<engine, sr, lb, cl, ph_reader, ph_obs>>

\* kill() is called, lines 179-180: a killed handle returns at once.
PHKill ==
    /\ ph_handle.pc = "idle"
    /\ ph_obs.kills + ph_obs.raised < MaxKills
    /\ IF ph_handle.killed
       THEN /\ ph_obs' = [ph_obs EXCEPT !.kills = @ + 1]
            /\ UNCHANGED ph_handle
       ELSE /\ ph_handle' = [ph_handle EXCEPT !.killed = TRUE,
                                              !.pc = "terminate"]
            /\ UNCHANGED ph_obs
    /\ UNCHANGED <<engine, sr, lb, cl, ph_reader>>

\* kill(), lines 181-188: taskkill is started (win32) or the process is sent
\* the termination signal.  Popen.terminate() is os.kill(pid, SIGTERM) in
\* the Python of the editor (2.6 and 3.3): for a process whose exit status
\* was collected the pid is gone and os.kill raises OSError, which kill()
\* does not catch.
PHTerminate(posix) ==
    /\ ph_handle.pc = "terminate"
    /\ IF posix /\ ph_handle.os = "reaped"
       THEN /\ ph_handle' = [ph_handle EXCEPT !.pc = "idle"]
            /\ ph_obs' = [ph_obs EXCEPT !.raised = @ + 1]
       ELSE /\ ph_handle' = [ph_handle EXCEPT !.terminations = @ + 1,
                                              !.pc = "detach"]
            /\ UNCHANGED ph_obs
    /\ UNCHANGED <<engine, sr, lb, cl, ph_reader>>

\* kill(), line 189: the listener is detached and kill() returns.
PHDetach ==
    /\ ph_handle.pc = "detach"
    /\ ph_handle' = [ph_handle EXCEPT !.listener = FALSE, !.pc = "idle"]
    /\ ph_obs' = [ph_obs EXCEPT !.kills = @ + 1]
    /\ UNCHANGED <<engine, sr, lb, cl, ph_reader>>

NextPH ==
    \/ \E r \in Readers : PHRead(r)
    \/ \E r \in Readers : PHReadEOF(r)
    \/ \E r \in Readers : PHCheck(r)
    \/ \E r \in Readers : PHLoad(r)
    \/ \E r \in Readers : PHCall(r)
    \/ PHExit
    \/ PHPoll
    \/ PHKill
    \/ \E posix \in BOOLEAN : PHTerminate(posix)
    \/ PHDetach

SpecPH == InitPH /\ [][NextPH]_vars

\* --------------------------------------------------- phase specification
\* A phase object of every type is initialised with a configuration and
\* asked should_run() for an active configuration, task and file.
\* The types are the keys of supported_build_phases (advanced_builder.py
\* lines 50-56).
PhaseTypes ==
    {"solution", "unity", "stylecop", "command", "copy"}

PhaseConfigs ==
    { PhaseConfig(t, c, k, s) :
        t \in PhaseTypes,
        c \in {<<>>, <<{"Debug"}>>, <<{"Debug", "Release"}>>},
        k \in {<<>>, <<{"Build"}>>, <<{"Clean"}>>},
        s \in {"nil", "sel"} }

Actives ==
    [configuration : {"Debug", "Release"}, task : {"Build", "Clean"},
     file : {"sel", "own", "other"}]

InitSR ==
    /\ EngineInit
    /\ LBIdle
    /\ CLIdle
    /\ PHIdle
    /\ sr_phase \in PhaseConfigs
    /\ sr_active \in Actives
    /\ sr_obj = NewPhaseObject
    /\ sr_result = NotCalled
    /\ sv_results = ResultsFile(FALSE, <<>>, 0)
    /\ sv_call = NoViolationsCall

\* _get_phase_object, advanced_builder.py lines 777-778: phase_class() and
\* phase.init(settings, **phase_config).
SRInit ==
    /\ sr_obj.state = "new"
    /\ sr_obj' = phase_init(sr_obj, sr_phase)
    /\ UNCHANGED <<engine, lb, cl, hd, sr_phase, sr_active, sr_result,
                   sv_results, sv_call>>

\* phase.should_run() of the object as init has left it.
SRShouldRun ==
    /\ sr_obj.state = "initialised"
    /\ ~sr_result.called
    /\ sr_result' = [called |-> TRUE,
                     raised |-> should_run(sr_obj, sr_active).raised,
                     value  |-> should_run(sr_obj, sr_active).value]
    /\ UNCHANGED <<engine, lb, cl, hd, sr_phase, sr_active, sr_obj,
                   sv_results, sv_call>>

\* phase.get_task() of _run_new_phase, advanced_builder.py line 752, with
\* the command template of the phase defined in the project or not.
SRGetTask(defined) ==
    /\ sr_obj.state = "initialised"
    /\ sr_obj' = get_task(sr_obj, defined)
    /\ UNCHANGED <<engine, lb, cl, hd, sr_phase, sr_active, sr_result,
                   sv_results, sv_call>>

NextSR ==
    \/ SRInit
    \/ SRShouldRun
    \/ \E defined \in BOOLEAN : SRGetTask(defined)

SpecSR == InitSR /\ [][NextSR]_vars

\* ------------------------------------------------ violations specification
\* print_violations is called once, by the completion callback of the
\* StyleCop phase, for every results file of up to MaxFiles files of up to
\* MaxViolations violations each and every limit.
ResultsFiles ==
    { ResultsFile(x, f, l) :
        x \in BOOLEAN,
        f \in UNION { [1..n -> 0..MaxViolations] : n \in 0..MaxFiles },
        l \in 0..MaxViolations }

InitSV ==
    /\ EngineInit
    /\ LBIdle
    /\ CLIdle
    /\ PHIdle
    /\ sr_phase = PhaseConfig("", <<>>, <<>>, "nil")
    /\ sr_active = [configuration |-> "", task |-> "", file |-> ""]
    /\ sr_obj = NewPhaseObject
    /\ sr_result = NotCalled
    /\ sv_results \in ResultsFiles
    /\ sv_call = NoViolationsCall

\* task_complete, stylecop_phase.py lines 163-171: print_violations(path,
\* window_controller).
SVPrintViolations ==
    /\ sv_call.state = "new"
    /\ sv_call' = print_violations(sv_call, sv_results)
    /\ UNCHANGED <<engine, lb, cl, hd, sr_phase, sr_active, sr_obj, sr_result,
                   sv_results>>

NextSV == SVPrintViolations

SpecSV == InitSV /\ [][NextSV]_vars

\* ---------------------------------------------- classifier specification
\* append_data, process_line and done, each called on a sink with a current
\* process, for every pattern set of a task.  A line is "e" (the error
\* pattern matches it when one is configured), "w" (likewise the warning
\* pattern) or "p"; the hide pattern is that of the errors, that of the
\* warnings, or none.  A line "c" is one the continuation pattern
\* (line_regex) matches when one is configured.
CLCaptures ==
    { Capture(TRUE, TRUE, TRUE, TRUE), Capture(TRUE, TRUE, FALSE, TRUE),
      Capture(TRUE, FALSE, FALSE, TRUE), Capture(FALSE, TRUE, TRUE, TRUE),
      Capture(FALSE, FALSE, FALSE, TRUE) }

CLTasks ==
    { [Task("ok", "none") EXCEPT !.skip_lines = n, !.file_regex = "",
                                 !.error_regex = er, !.warning_regex = wr,
                                 !.hide_regex = hr, !.line_regex = lr,
                                 !.warnings_as_errors = wae,
                                 !.allow_hide_errors = ahe,
                                 !.captures = c] :
        n \in 0..MaxSkip, er \in {"", "e"}, wr \in {"", "w"},
        hr \in {"", "e", "w"}, lr \in {"", "c"}, wae \in BOOLEAN,
        ahe \in BOOLEAN, c \in CLCaptures }

CLLines == { <<"e">>, <<"w">>, <<"p">> }

CLChunks ==
    { <<"e", "LF">>, <<"w", "LF">>, <<"LF">>, <<"LF", "e", "LF">>, <<"p">>,
      <<"c", "LF">>, <<"BAD">> }

InitCL ==
    /\ EngineInit
    /\ SRIdle
    /\ LBIdle
    /\ PHIdle
    /\ cl_prc \in { NewProc(1, 1, t) : t \in CLTasks }
    /\ cl_sink = [NewSink(FALSE) EXCEPT !.proc = 1, !.running = TRUE]
    /\ cl_last = NoCall

\* on_data: append_data(proc, data), lines 415-477, for the current process.
CLAppendData(data) ==
    /\ cl_last.n < MaxOps
    /\ cl_last.op /= "done"
    /\ LET r == append_data(cl_sink, 1, cl_prc, data)
       IN  /\ cl_sink' = r.sink
           /\ cl_prc' = r.proc
           /\ cl_last' = [op |-> "append_data", n |-> cl_last.n + 1,
                          before |-> cl_sink, line |-> <<>>,
                          lines |-> SplitChunk(cl_prc.buffer, data).lines,
                          skip |-> cl_prc.skip_lines, at |-> r.at,
                          raised |-> r.raised, data |-> data]
    /\ UNCHANGED <<engine, sr, lb, hd>>

\* process_line(edit, proc, line, ...), lines 479-537, for the current
\* process.
CLProcessLine(line) ==
    /\ cl_last.n < MaxOps
    /\ cl_last.op /= "done"
    /\ cl_sink' = process_line(cl_sink, cl_prc.task, line)
    /\ cl_last' = [NoCall EXCEPT !.op = "process_line", !.n = cl_last.n + 1,
                                 !.before = cl_sink, !.line = line]
    /\ UNCHANGED <<engine, sr, lb, hd, cl_prc>>

\* done(), lines 566-589.
CLDone ==
    /\ cl_last.n < MaxOps
    /\ cl_last.op /= "done"
    /\ cl_sink' = done(cl_sink)
    /\ cl_last' = [NoCall EXCEPT !.op = "done", !.n = cl_last.n + 1,
                                 !.before = cl_sink]
    /\ UNCHANGED <<engine, sr, lb, hd, cl_prc>>

NextCL ==
    \/ \E d \in CLChunks : CLAppendData(d)
    \/ \E l \in CLLines : CLProcessLine(l)
    \/ CLDone

SpecCL == InitCL /\ [][NextCL]_vars

\* ------------------------------------------------------------------ claims
\* The lines of the log of the build b.
Log(b) == sink[b].log

\* The summary lines done() writes.
Summaries == {"successful", "finished with errors", "finished with N errors"}

\* The handles the sink of the build b has spawned.
ProcsOf(b) == {p \in DOMAIN procs : procs[p].sink = b}

\* The step is the main thread running finish(proc) for the current
\* process of the sink the callback is bound to.
FinishOfCurrent ==
    /\ queue /= <<>>
    /\ queue' = Tail(queue)
    /\ Head(queue).type = "finish"
    /\ sink[Head(queue).sink].proc = Head(queue).proc

\* The step is the main thread running a callback of a handle that is not
\* the current process of its sink.
StaleCallback ==
    /\ queue /= <<>>
    /\ queue' = Tail(queue)
    /\ sink[Head(queue).sink].proc /= Head(queue).proc

\* C1: once has_errors of a build's sink is true, it is true in every later
\* state of that build; starting the next phase's task does not clear it.
C1_HasErrorsMonotonic ==
    [][\A b \in DOMAIN sink : sink[b].has_errors => sink'[b].has_errors]_vars

\* C2: in a build of two phases whose first phase has stop_on_error and
\* whose first process ends with exit code 1, no process is spawned for the
\* second phase, the summary is not the successful one, and the build is
\* torn down once the summary is written.
C2_StopsAfterFailedFirstPhase ==
    \A b \in DOMAIN sink :
        ( /\ Len(settings[b].phases) = 2
          /\ settings[b].phases[1].stop_on_error
          /\ \E p \in ProcsOf(b) : /\ procs[p].phase = 1
                                   /\ procs[p].os /= "running"
                                   /\ procs[p].code = 1 )
        => /\ \A p \in ProcsOf(b) : procs[p].phase /= 2
           /\ \A i \in DOMAIN Log(b) : Log(b)[i].k /= "successful"
           /\ (\E i \in DOMAIN Log(b) : Log(b)[i].k \in Summaries) => exec /= b

\* C3: if the process of any phase of a build failed (finish() found its
\* exit code to be non-zero), the summary of the build is never the
\* successful one.
C3_FailedBuildNotSuccessful ==
    \A b \in DOMAIN sink :
        (\E p \in ProcsOf(b) : procs[p].exit_seen > 0)
        => \A i \in DOMAIN Log(b) : Log(b)[i].k /= "successful"

\* C4: when finish() has processed the completion of the current process
\* and that process ends with a non-zero exit code, has_errors is true.
C4_ExitCodeSeenByFinish ==
    [][(FinishOfCurrent /\ procs[Head(queue).proc].code /= 0)
           => sink'[Head(queue).sink].has_errors]_vars

\* C5: after the spawn of a phase's process failed with an OS error, no
\* later phase is started when that phase has stop_on_error, and the
\* summary is not the successful one when no later phase was started.
C5_SpawnFailureFailsPhase ==
    \A b \in DOMAIN sink : \A i \in DOMAIN Log(b) :
        Log(b)[i].k = "OSError"
        => /\ settings[b].phases[Log(b)[i].n].stop_on_error
                => \A j \in DOMAIN Log(b) : j > i => Log(b)[j].k /= "phase"
           /\ (\A j \in DOMAIN Log(b) : j > i => Log(b)[j].k /= "phase")
                => \A j \in DOMAIN Log(b) : Log(b)[j].k /= "successful"

\* C6: a poll callback of the loop of an earlier build that runs while a
\* newer build is in progress pops, starts and finalizes nothing of it.
C6_StalePollHasNoEffect ==
    [][\A o \in timers :
          ((\E py3 \in BOOLEAN : Poll(o, py3)) /\ exec /= 0 /\ o /= exec)
          => UNCHANGED <<exec, phases, current_phase, sink, procs>>]_vars

\* C7: once a build is cancelled (the interruption line is in its log), its
\* current process is detached and the process it spawned last is killed,
\* the build is torn down, and nothing after the interruption line is a
\* phase header or a summary.
C7_CancelAbandonsBuild ==
    \A b \in DOMAIN sink : \A i \in DOMAIN Log(b) :
        Log(b)[i].k = "interrupted"
        => /\ exec /= b
           /\ sink[b].proc = 0
           /\ \A p \in ProcsOf(b) :
                  (\A q \in ProcsOf(b) : q <= p) => procs[p].killed
           /\ \A j \in DOMAIN Log(b) :
                  j > i => Log(b)[j].k \notin Summaries \cup {"phase"}

\* C7 witness: a build with phases left was cancelled while the process of
\* its first phase was running, and the poll callback of its loop has run
\* since.
C7_Witness ==
    \E b \in DOMAIN sink : \E p \in ProcsOf(b) :
        /\ \E i \in DOMAIN Log(b) : Log(b)[i].k = "interrupted"
        /\ procs[p].killed /\ procs[p].os = "running" /\ procs[p].phase = 1
        /\ Len(settings[b].phases) > 1
        /\ b \notin timers

\* C8: a data chunk or a completion of a handle that is not the current
\* process of its sink changes nothing of any sink (log, has_errors,
\* running flag, held-back line) and nothing of any handle (skip budget,
\* line buffer).
C8_StaleEventChangesNothing ==
    [][StaleCallback => UNCHANGED <<sink, procs>>]_vars

\* C8 witness: the main thread has just run the callback of a killed or
\* superseded handle.
C8_Witness ==
    /\ last = "stale"
    /\ \E p \in DOMAIN procs : procs[p].killed \/ sink[procs[p].sink].proc /= p

\* C9: when finish() has processed the completion of the current process,
\* nothing of its output is left in its line buffer or held back in
\* temp_str.
C9_OutputFlushedAtFinish ==
    [][FinishOfCurrent
           => /\ procs'[Head(queue).proc].buffer = <<>>
              /\ sink'[Head(queue).sink].temp_str = <<>>]_vars

\* C10: the complete lines split off so far, each followed by a line feed,
\* and the fragment in the buffer are the chunks delivered so far with CR LF
\* and CR normalized to LF.
C10_LineBufferRoundTrip ==
    Join(lb_lines) \o lb_buffer = Normalize(Concat(lb_chunks))

\* The number of non-empty lines among the first k of a list.
NonEmpty(lines, k) == Cardinality({i \in 1..k : lines[i] /= <<>>})

\* The sink's log is the log before the last call and one line of kind k.
Rendered(k) ==
    /\ Len(cl_sink.log) = Len(cl_last.before.log) + 1
    /\ cl_sink.log[Len(cl_sink.log)].k = k

\* The last call was process_line, for a line the warning pattern matches
\* and the error pattern does not.
WarningLine ==
    /\ cl_last.op = "process_line"
    /\ match_line(cl_last.line, cl_prc.task.warning_regex)
    /\ ~match_line(cl_last.line, error_regex(cl_prc.task))

\* C11: the skip budget is used up by non-empty lines only: after a chunk,
\* the budget is what it was less the non-empty lines the loop skipped, and
\* a line reaches the classification (line 464) only when as many non-empty
\* lines as the budget came before it.
C11_SkipBudgetNonEmptyLines ==
    cl_last.op = "append_data"
    => LET skipped == IF cl_last.raised THEN cl_last.at - 1
                      ELSE Len(cl_last.lines)
           n       == NonEmpty(cl_last.lines, skipped)
       IN  /\ cl_prc.skip_lines
                 = (IF n < cl_last.skip THEN cl_last.skip - n ELSE 0)
           /\ cl_last.raised => n >= cl_last.skip

\* C12: when finish() has processed the completion of the current process
\* and append_data had been handed a complete line of it that its error
\* pattern matches, has_errors is true and a line with the ERROR prefix and
\* the file position is in the log.
C12_ErrorLineRendered ==
    [][(FinishOfCurrent /\ procs[Head(queue).proc].got_error)
           => /\ sink'[Head(queue).sink].has_errors
              /\ \E i \in DOMAIN sink'[Head(queue).sink].log :
                     sink'[Head(queue).sink].log[i] = Line("ERROR", 1)]_vars

\* C13: process_line, for a line both the hide pattern and the error
\* pattern match, sets has_errors when allow_hide_errors is off and leaves
\* has_errors as it was when allow_hide_errors is on.
C13_HideOverridesErrors ==
    ( /\ cl_last.op = "process_line"
      /\ match_line(cl_last.line, cl_prc.task.hide_regex)
      /\ match_line(cl_last.line, error_regex(cl_prc.task)) )
    => IF cl_prc.task.allow_hide_errors
       THEN cl_sink.has_errors = cl_last.before.has_errors
       ELSE cl_sink.has_errors

C15_WarningsOnlySuccessful ==
    ( /\ cl_last.op = "done"
      /\ ~cl_last.before.has_errors
      /\ \A i \in DOMAIN cl_last.before.log :
             cl_last.before.log[i].k /= "ERROR"
      /\ \E i \in DOMAIN cl_last.before.log :
             cl_last.before.log[i].k = "WARNING" )
    => Rendered("successful") /\ ~cl_sink.has_errors

\* C16: no kill() call raises, and after every kill() call that returned
\* the handle is killed, its listener is detached and one termination
\* request was sent, however many calls were made.
C16_KillIdempotent ==
    /\ ph_obs.raised = 0
    /\ (ph_obs.kills > 0 /\ ph_handle.pc = "idle")
           => /\ ph_handle.killed
              /\ ~ph_handle.listener
              /\ ph_handle.terminations = 1

\* C17: no call of on_data or on_finished reaches the listener after a
\* kill() call has returned, and no reader thread faults.
C17_NoDeliveryAfterKill ==
    /\ ~ph_obs.late
    /\ \A r \in Readers : ph_reader[r].pc /= "fault"

\* The step starts a task with kill while the process the sink ran before
\* is still running (poll() is true).
RunKillsPrevious ==
    /\ exec /= 0
    /\ sink[exec].proc /= 0
    /\ procs[sink[exec].proc].os /= "exited"
    /\ Len(procs') > Len(procs)
    /\ procs'[Len(procs')].task.kill

\* C18: when run is called with kill while the previous process is still
\* running, that process is killed and a cancellation line is written to
\* the log in the same call, before the new process is spawned.
C18_CancelledBeforeRestart ==
    [][\A o \in timers :
          ((\E py3 \in BOOLEAN : Poll(o, py3)) /\ RunKillsPrevious)
          => /\ procs'[sink[exec].proc].killed
             /\ \E i \in DOMAIN sink'[exec].log :
                    /\ i > Len(sink[exec].log)
                    /\ sink'[exec].log[i].k = "Cancelled"]_vars

\* C19: a build configured with an invalid phase has the line naming that
\* phase in its log, and no phase of it is ever started: no phase header is
\* logged and no process is spawned.
C19_InvalidPhaseAbortsBuild ==
    \A b \in DOMAIN sink :
        (\E n \in DOMAIN settings[b].phases : ~settings[b].phases[n].valid)
        => /\ \E i \in DOMAIN Log(b) :
                  /\ Log(b)[i].k = "Invalid config"
                  /\ ~settings[b].phases[Log(b)[i].n].valid
           /\ \A i \in DOMAIN Log(b) : Log(b)[i].k /= "phase"
           /\ ProcsOf(b) = {}

\* The phases of the build b whose should_run() is false.
NotApplying(b) ==
    {n \in DOMAIN settings[b].phases : ~settings[b].phases[n].should_run}

\* The log of the build b holds the line of kind k for the phase n.
HasLine(b, k, n) == \E i \in DOMAIN Log(b) : Log(b)[i] = Line(k, n)

\* The scheduler of the build b has come to the phase n or past it.
Taken(b, n) ==
    \E i \in DOMAIN Log(b) : Log(b)[i].k = "phase" /\ Log(b)[i].n >= n

\* The task of the phase n of the build b was handed to the sink.
Handed(b, n) ==
    \/ \E p \in ProcsOf(b) : procs[p].phase = n
    \/ HasLine(b, "OSError", n)

\* What holds of a phase that does not apply whether the build is quiet or
\* not: in build-all mode it is run and never logged as skipped, without
\* build-all it is never run.
SkipOrRun(b, n) ==
    IF settings[b].build_all
    THEN /\ ~HasLine(b, "Skipped", n)
         /\ Taken(b, n) => HasLine(b, "phase", n) /\ Handed(b, n)
    ELSE ~HasLine(b, "phase", n) /\ ~Handed(b, n)

IsSuffix(s, t) == \E k \in 0..Len(t) : s = SubSeq(t, k + 1, Len(t))

\* The positions of the phases whose header is in the log of the build b.
Headers(b) == {Log(b)[i].n : i \in {j \in DOMAIN Log(b) : Log(b)[j].k = "phase"}}

\* The phases of the build b are started in the order of the configured
\* list, each at most once: the headers in its log and the handles it
\* spawned go up in the list, and what is in the queue is a run of the
\* configured list past every phase started so far.
StartedInOrder(b) ==
    /\ \A i, j \in DOMAIN Log(b) :
           (i < j /\ Log(b)[i].k = "phase" /\ Log(b)[j].k = "phase")
           => Log(b)[i].n < Log(b)[j].n
    /\ \A p, q \in ProcsOf(b) : p < q => procs[p].phase < procs[q].phase
    /\ \A p \in ProcsOf(b) : procs[p].phase \in Headers(b)
    /\ exec = b
         => /\ \E k \in 0..Len(settings[b].phases) :
                   \E m \in k..Len(settings[b].phases) :
                       phases = SubSeq(settings[b].phases, k + 1, m)
            /\ \A i \in DOMAIN phases : \A n \in Headers(b) :
                   phases[i].name > n

\* C21: in every build the phases handed to the sink are a subsequence of
\* the configured list in its order, each phase is started at most once,
\* and while a build is in progress its queue only loses phases from the
\* front: it is never re-ordered or refilled.
C21_PhasesInConfiguredOrder ==
    /\ [](\A b \in DOMAIN sink : StartedInOrder(b))
    /\ [][(exec /= 0 /\ exec' = exec) => IsSuffix(phases', phases)]_vars

\* C21 witness: a build has started its first and its fourth phase, with a
\* phase that was skipped and one that could not be started in between.
C21_Witness ==
    \E b \in DOMAIN sink :
        /\ Headers(b) = {1, 3, 4}
        /\ HasLine(b, "Skipped", 2)
        /\ \E p, q \in ProcsOf(b) : procs[p].phase = 1 /\ procs[q].phase = 4

\* Every phase of the build b is valid.
AllValid(b) ==
    \A n \in DOMAIN settings[b].phases : settings[b].phases[n].valid

\* The build b has ended: its summary is written, the scheduler has dropped
\* it and its polling loop has stopped.
Completed(b) ==
    /\ b \in DOMAIN sink
    /\ \E i \in DOMAIN Log(b) : Log(b)[i].k \in Summaries
    /\ exec /= b
    /\ b \notin timers

\* C22: when no build is cancelled and every process reaches the end of its
\* standard output, every build whose phases are all valid ends with the
\* summary of done(), the scheduler torn down and the polling stopped.
C22_BuildTerminates ==
    \A b \in 1..MaxBuilds :
        (b \in DOMAIN sink /\ AllValid(b)) ~> Completed(b)

\* The step is a poll callback that hands the queue to the loop of
\* _run_tasks (lines 729-743), which constructs the handles of the phases
\* it starts.
StartsPhases ==
    /\ \E o \in timers : \E py3 \in BOOLEAN : Poll(o, py3)
    /\ ~stop
    /\ exec /= 0
    /\ ~sink[exec].running
    /\ phases /= <<>>
    /\ ~stop_on_error(sink[exec], current_phase)

\* C23: the PATH of the editor's process is after the construction of a
\* handle what it was before, for a task with a search-path fragment too,
\* whether the process was spawned or the spawn failed.
C23_SearchPathRestored ==
    [][StartsPhases => environ' = environ]_vars

\* The chunk holds bytes that are no text in the encoding of the sink.
Undecodable(data) == \E i \in DOMAIN data : data[i] = "BAD"

\* C24: append_data, for a chunk of the current process that does not
\* decode, adds one diagnostic line to the log and changes nothing else of
\* the sink (has_errors, the held line) and nothing of the handle (line
\* buffer, skip budget), so that the chunks after it are processed as if it
\* had not come.
C24_UndecodableChunk ==
    [][\A d \in CLChunks :
          (Undecodable(d) /\ CLAppendData(d))
          => /\ cl_sink' = write(cl_sink, "decode_error", 0)
             /\ cl_prc' = cl_prc]_vars

\* C24 witness: a chunk that does not decode came for a handle with a
\* fragment in its line buffer.
C24_Witness ==
    /\ cl_last.op = "append_data"
    /\ Undecodable(cl_last.data)
    /\ cl_prc.buffer /= <<>>
    /\ cl_sink.log = <<Line("decode_error", 0)>>

\* The step is finish(proc) of the handle p, run while p is the current
\* process of its sink, for a task that has a completion callback.
FinishWithCallback(p) ==
    /\ FinishOfCurrent
    /\ Head(queue).proc = p
    /\ procs[p].task.completion_callback /= "none"

\* A callback of the handle p that runs finish is posted.
FinishPosted(p) ==
    \E i \in DOMAIN queue : queue[i].proc = p /\ queue[i].type = "finish"

\* C25: the completion callback of a task is called once by the finish of
\* its process that runs while the process is current, and by no other
\* step: not for a killed handle and not for one that is not current.  No
\* chunk of standard output is posted once the finish is posted, so that
\* the chunks of standard output are all appended before the call.  When the
\* callback returns true, has_errors is true after the step.
C25_CompletionCallbackOnce ==
    /\ [](\A p \in DOMAIN procs : procs[p].called <= 1)
    /\ [][\A p \in DOMAIN procs :
            /\ procs'[p].called =
                   procs[p].called + (IF FinishWithCallback(p) THEN 1 ELSE 0)
            /\ FinishWithCallback(p)
               => /\ ~procs[p].killed
                  /\ procs[p].called = 0
                  /\ procs[p].task.completion_callback = "true"
                     => sink'[procs[p].sink].has_errors
            /\ (\E d \in TaskChunks : ReadStdout(p, d))
               => ~FinishPosted(p) /\ procs[p].called = 0]_vars

\* C25 witness: the callback of a process that ended with the exit code 0
\* was called and returned true, after a chunk of the process was appended.
C25_Witness ==
    \E p \in DOMAIN procs :
        /\ procs[p].called = 1
        /\ procs[p].task.completion_callback = "true"
        /\ procs[p].os = "exited" /\ procs[p].code = 0
        /\ procs[p].exit_seen = 0
        /\ sink[procs[p].sink].has_errors
        /\ ~sink[procs[p].sink].running
        /\ sink[procs[p].sink].log /= <<>>
        /\ chunks > 0

\* C26: every line of the log with the ERROR or the WARNING prefix is one
\* the result_file_regex matches, whatever the patterns of the task
\* capture, and a line rendered from a file and a line number without a
\* column has the column 0.
C26_RenderedLineShape ==
    /\ \A i \in DOMAIN cl_sink.log :
           cl_sink.log[i].k \in {"ERROR", "WARNING"} => cl_sink.log[i].n = 1
    /\ LET c == cl_prc.task.captures
       IN  (c.file /\ c.line /\ ~c.column)
               => build_message("ERROR", c).column = "0"

\* What should_run() is to return for the configuration kw of a phase and
\* the active configuration, task and file a.
ExpectedToRun(kw, a) ==
    /\ kw.configurations = <<>> \/ a.configuration \in kw.configurations[1]
    /\ a.task \in (IF kw.tasks = <<>> THEN {"Build"} ELSE kw.tasks[1])
    /\ kw.path_selector = "nil" \/ a.file = kw.path_selector

\* C27: should_run() of an initialised phase of every type returns true
\* exactly when the active configuration is one of the configurations of the
\* phase (or none are configured), the active task is one of its tasks
\* ("Build" when none are configured) and the active file lies under the
\* path selector; without a path selector the place of the active file has
\* no influence.
C27_ShouldRun ==
    sr_result.called
    => /\ ~sr_result.raised
       /\ sr_result.value = ExpectedToRun(sr_phase, sr_active)

\* The step is a poll of the scheduler.
PollStep == \E o \in timers : \E py3 \in BOOLEAN : Poll(o, py3)

\* The step is a poll that hands the task of a phase to the sink of the
\* build in progress: the header of the phase is written.
HandsTask ==
    /\ PollStep
    /\ exec /= 0
    /\ \E i \in DOMAIN sink'[exec].log :
           i > Len(sink[exec].log) /\ sink'[exec].log[i].k = "phase"

\* C28: a poll hands the task of a phase to the sink only when the sink is
\* not running, finish has run for the process started before (the process
\* of the current phase), and that phase has no stop_on_error or has_errors
\* is false; a poll that finds the sink running leaves everything as it
\* is, its timer set again.
C28_NextPhaseAfterCompletion ==
    /\ [][HandsTask
            => /\ ~sink[exec].running
               /\ sink[exec].proc /= 0
                  => /\ procs[sink[exec].proc].exit_seen /= -2
                     /\ current_phase /= <<>>
                     /\ current_phase[1].name = procs[sink[exec].proc].phase
               /\ current_phase /= <<>>
                  => (~current_phase[1].stop_on_error
                         \/ ~sink[exec].has_errors)]_vars
    /\ [][(PollStep /\ exec /= 0 /\ sink[exec].running)
            => UNCHANGED <<exec, stop, phases, current_phase, settings, sink,
                           procs, queue, chunks, timers, environ>>]_vars

\* C28 witness: the second phase of a build was handed to the sink after
\* the process of the first, which has stop_on_error, ended without errors.
C28_Witness ==
    /\ exec /= 0
    /\ sink[exec].running
    /\ sink[exec].proc /= 0
    /\ procs[sink[exec].proc].phase = 2
    /\ \E p \in ProcsOf(exec) :
           /\ procs[p].phase = 1
           /\ procs[p].exit_seen = 0
           /\ settings[exec].phases[1].stop_on_error

\* done() has written its summary line to the log of the build b.
HasSummary(b) == \E i \in DOMAIN Log(b) : Log(b)[i].k \in Summaries

\* C29: the log of a build holds at most one summary line (done() runs at
\* most once for a build), and once the summary line is written no step
\* appends anything to the log of that build, a chunk of standard error of
\* its last process that is delivered later included.
C29_NothingAfterSummary ==
    /\ [](\A b \in DOMAIN sink :
             \A i, j \in DOMAIN Log(b) :
                 (Log(b)[i].k \in Summaries /\ Log(b)[j].k \in Summaries)
                 => i = j)
    /\ [][\A b \in DOMAIN sink :
             HasSummary(b) => sink'[b].log = sink[b].log]_vars

\* The phase n of the build b has a task whose process cannot be created.
SpawnFails(b, n) ==
    /\ n \in DOMAIN settings[b].phases
    /\ settings[b].phases[n].task /= <<>>
    /\ settings[b].phases[n].task[1].cmd /= "ok"

\* C30: when a poll hands a task whose process cannot be created to the
\* sink, the header of the phase is followed by the diagnostic lines and the
\* sink is not running after the step; and no poll of a build in progress
\* is left by an exception: after it either the build has ended, with the
\* summary line written and the context dropped, or the timer of the poll is
\* set again.
C30_SpawnFailureContained ==
    [][(PollStep /\ exec /= 0 /\ ~stop)
          => /\ \A i \in DOMAIN sink'[exec].log :
                    ( /\ i > Len(sink[exec].log)
                      /\ sink'[exec].log[i].k = "phase"
                      /\ SpawnFails(exec, sink'[exec].log[i].n) )
                    => /\ i + 1 \in DOMAIN sink'[exec].log
                       /\ sink'[exec].log[i + 1].k = "OSError"
             /\ IF exec' = 0
                THEN \E i \in DOMAIN sink'[exec].log :
                         sink'[exec].log[i].k \in Summaries
                ELSE timers' = timers]_vars

\* The kinds of the lines that name a phase.
PhaseLines == {"phase", "Skipped", "OSError", "Invalid config"}

\* The phase n of the build b is valid and applies, and its get_task()
\* returns None.
WithoutTask(b, n) ==
    /\ n \in DOMAIN settings[b].phases
    /\ settings[b].phases[n].valid
    /\ applies(settings[b], settings[b].phases[n])
    /\ settings[b].phases[n].task = <<>>

\* C31: when the scheduler has gone past a phase that could not produce
\* its task, to a later phase or to the summary, the log holds a line that
\* names that phase.
C31_MissingTaskLogged ==
    \A b \in DOMAIN sink : \A n \in DOMAIN settings[b].phases :
        (WithoutTask(b, n) /\ (Taken(b, n + 1) \/ HasSummary(b)))
        => \E i \in DOMAIN Log(b) :
               Log(b)[i].k \in PhaseLines /\ Log(b)[i].n = n

\* The line is one the continuation pattern of the task matches.
Continues(line, task) == match_line(line, task.line_regex)

\* The lines of the last call of append_data that begin a logical line:
\* those past the skip budget that are not empty and do not continue the
\* line in progress.
OwnLines ==
    {i \in DOMAIN cl_last.lines :
        /\ cl_last.lines[i] /= <<>>
        /\ NonEmpty(cl_last.lines, i) > cl_last.skip
        /\ ~Continues(cl_last.lines[i], cl_prc.task)}

\* C32: a call of append_data for the current process with a chunk that
\* decodes goes through all its lines; it writes at most one line of the log
\* for each line that does not continue another, none for a continuation
\* line, and, when nothing is hidden, a line for each of them but the one
\* still in progress.
C32_LogicalLines ==
    (cl_last.op = "append_data" /\ ~Undecodable(cl_last.data))
    => /\ ~cl_last.raised
       /\ Len(cl_sink.log) - Len(cl_last.before.log) <= Cardinality(OwnLines)
       /\ cl_prc.task.hide_regex = ""
          => Len(cl_sink.log) - Len(cl_last.before.log)
                >= Cardinality(OwnLines) - 1

\* The kinds of the lines process_line writes.
Classified == {"ERROR", "WARNING", "MESSAGE", "plain"}

\* The step is the main thread running a callback of the current process of
\* the sink b.
CurrentCallback(b) ==
    /\ queue /= <<>>
    /\ queue' = Tail(queue)
    /\ Head(queue).sink = b
    /\ Head(queue).proc = sink[b].proc

\* C33: a step that makes another process the current one of a sink leaves
\* no text held back in the sink for the patterns of the new process; and a
\* step that writes a classified line to the log of a sink, or sets its
\* has_errors, is the callback of a handle that is the current process of
\* the sink, so that the line is classified with the task of that handle.
C33_OwnPatternsOnly ==
    [][\A b \in DOMAIN sink :
          /\ (sink'[b].proc /= sink[b].proc /\ sink'[b].proc /= 0)
             => sink'[b].temp_str = <<>>
          /\ ( \/ ~sink[b].has_errors /\ sink'[b].has_errors
               \/ \E i \in DOMAIN sink'[b].log :
                      i > Len(sink[b].log) /\ sink'[b].log[i].k \in Classified )
             => CurrentCallback(b)]_vars

\* C33 witness: the process of a later phase is the current one of a sink
\* while the handle of an earlier phase still holds text back in its line
\* buffer.
C33_Witness ==
    /\ \E p, q \in DOMAIN procs :
           /\ procs[p].sink = procs[q].sink
           /\ sink[procs[q].sink].proc = q
           /\ procs[p].phase < procs[q].phase
           /\ procs[p].buffer /= <<>>

\* The last call was append_data, for the current process, with a chunk
\* that decodes and holds complete lines, all of them empty.
EmptyLinesOnly ==
    /\ cl_last.op = "append_data"
    /\ ~Undecodable(cl_last.data)
    /\ cl_last.lines /= <<>>
    /\ \A i \in DOMAIN cl_last.lines : cl_last.lines[i] = <<>>

\* C34: append_data does not raise on empty lines and leaves the log,
\* has_errors and the held line as they were; and the line the sink holds
\* for the next call of process_line is never the empty string.
C34_EmptyLineNotClassified ==
    /\ cl_sink.has_temp_str => cl_sink.temp_str /= <<>>
    /\ EmptyLinesOnly
       => /\ ~cl_last.raised
          /\ cl_sink = cl_last.before

\* C34 witness: the first chunk of a process without lines to skip is an
\* empty line.
C34_Witness ==
    /\ EmptyLinesOnly
    /\ cl_last.n = 1
    /\ cl_last.skip = 0
    /\ cl_last.at = 1

\* The sequence s is the beginning of the sequence t.
IsPrefix(s, t) == Len(s) <= Len(t) /\ s = SubSeq(t, 1, Len(s))

C36_ValidityFixedAtConstruction ==
    [][(sr_obj.state = "initialised" /\ sr_obj.is_valid)
          => sr_obj'.is_valid]_vars

\* The number of violations in the results file of the call.
Violations(res) ==
    IF ~res.exists THEN 0
    ELSE LET RECURSIVE Sum(_)
             Sum(f) == IF f = <<>> THEN 0 ELSE f[1] + Sum(Tail(f))
         IN  Sum(res.files)

\* C37: print_violations returns; with a limit it has reported no more
\* violation lines than the limit; and it returns true exactly when it has
\* reported a violation, which it has when the results file holds one.
C37_ViolationsLimited ==
    sv_call.state /= "new"
    => /\ sv_call.state = "returned"
       /\ sv_results.limit > 0 => sv_call.violations <= sv_results.limit
       /\ sv_call.value = (sv_call.violations > 0)
       /\ Violations(sv_results) > 0 => sv_call.violations > 0

\* The step is a build request that run_command gives up because of an
\* invalid phase: a new sink is there, with the line about the phase.
AbortsInvalid ==
    /\ Len(sink') = Len(sink) + 1
    /\ \E i \in DOMAIN sink'[Len(sink')].log :
           sink'[Len(sink')].log[i].k = "Invalid config"

\* C38: a build request given up because of an invalid phase leaves no
\* build context behind: no sink of a build in progress (and no settings)
\* and no phases.
C38_AbortLeavesIdle ==
    [][AbortsInvalid
          => /\ exec' = 0
             /\ phases' = <<>>
             /\ current_phase' = <<>>]_vars

\* C39: every poll callback that runs finds the _stop flag set or a build
\* context (_exec is not None).
C39_PollFindsContext ==
    [][PollStep => (stop \/ exec /= 0)]_vars

=============================================================================
